---- MODULE Spec2Model ----
(***************************************************************************)
(* ComedoBot: strict comedogen classification (agent/agent.py,             *)
(* agent/comedogen_base.py) and risk aggregation (bot/bot.py).             *)
(*                                                                         *)
(* A Python str is modelled as a sequence of one-character strings, so     *)
(* that normalisation, substring search and the regex word boundary are    *)
(* computed character by character, as the code computes them.             *)
(***************************************************************************)
EXTENDS Integers, Sequences, FiniteSets, TLC

(***************************************************************************)
(* Bounds of the model                                                     *)
(***************************************************************************)
\* number of fragments concatenated into a generated ingredient name
MaxFrags == 2
\* largest 1-based position passed to classify_ingredient_strict
MaxPos == 6
\* longest payload whose ingredients are drawn from every kind of raw dict
MaxIngr == 4
\* longest ingredient list (record sequence) scored by the aggregator
MaxRecs == 6

(***************************************************************************)
(* Characters                                                              *)
(***************************************************************************)
LowerSeq == << "a", "b", "c", "d", "e", "f", "g", "h", "i", "j", "k", "l", "m",
               "n", "o", "p", "q", "r", "s", "t", "u", "v", "w", "x", "y", "z" >>
UpperSeq == << "A", "B", "C", "D", "E", "F", "G", "H", "I", "J", "K", "L", "M",
               "N", "O", "P", "Q", "R", "S", "T", "U", "V", "W", "X", "Y", "Z" >>
LowerAlpha == { LowerSeq[i] : i \in DOMAIN LowerSeq }
UpperAlpha == { UpperSeq[i] : i \in DOMAIN UpperSeq }
Digits == { "0", "1", "2", "3", "4", "5", "6", "7", "8", "9" }
\* the characters the regex class \s matches
Whitespace == { " ", "\t", "\n", "\r" }

\* str.lower() on one character (ASCII letters; every other character of the
\* model's alphabet is its own lower case)
LowerChar(c) ==
    IF c \in UpperAlpha
    THEN LowerSeq[CHOOSE i \in DOMAIN UpperSeq : UpperSeq[i] = c]
    ELSE c

\* str.lower()
lower(s) == [i \in DOMAIN s |-> LowerChar(s[i])]

\* the regex class \w (on the characters of the model's alphabet)
IsWordChar(c) == c \in LowerAlpha \cup UpperAlpha \cup Digits \cup {"_"}

\* Python's `sub in s` for str
Contains(s, sub) ==
    \E i \in 1..(Len(s) - Len(sub) + 1) : SubSeq(s, i, i + Len(sub) - 1) = sub

\* str.strip(): drop leading and trailing whitespace
RECURSIVE lstrip(_)
lstrip(s) ==
    IF s # <<>> /\ Head(s) \in Whitespace THEN lstrip(Tail(s)) ELSE s

RECURSIVE rstrip(_)
rstrip(s) ==
    IF s # <<>> /\ s[Len(s)] \in Whitespace
    THEN rstrip(SubSeq(s, 1, Len(s) - 1))
    ELSE s

strip(s) == rstrip(lstrip(s))

(***************************************************************************)
(* _norm and the matching helpers                                          *)
(***************************************************************************)
\* a character matched by _non_alnum = [^a-z0-9\s-]+
IsNonAlnum(c) == c \notin (LowerAlpha \cup Digits \cup Whitespace \cup {"-"})

\* _non_alnum.sub(" ", text): every maximal run of matching characters
\* becomes one space
RECURSIVE _non_alnum_sub(_)
_non_alnum_sub(s) ==
    IF s = <<>> THEN <<>>
    ELSE IF IsNonAlnum(Head(s))
         THEN IF Len(s) > 1 /\ IsNonAlnum(s[2])
              THEN _non_alnum_sub(Tail(s))
              ELSE <<" ">> \o _non_alnum_sub(Tail(s))
         ELSE <<Head(s)>> \o _non_alnum_sub(Tail(s))

\* _spaces.sub(" ", text): every maximal run of whitespace becomes one space
RECURSIVE _spaces_sub(_)
_spaces_sub(s) ==
    IF s = <<>> THEN <<>>
    ELSE IF Head(s) \in Whitespace
         THEN IF Len(s) > 1 /\ s[2] \in Whitespace
              THEN _spaces_sub(Tail(s))
              ELSE <<" ">> \o _spaces_sub(Tail(s))
         ELSE <<Head(s)>> \o _spaces_sub(Tail(s))

\* _norm without the final strip()
_norm_no_strip(text) == _spaces_sub(_non_alnum_sub(lower(text)))

\* _norm(text), text a str (None and "" both give "" through `text or ""`)
_norm(text) == strip(_spaces_sub(_non_alnum_sub(lower(text))))

\* the regex assertion \b at the gap after the first p characters of text
WordBoundary(text, p) ==
    LET before == p >= 1 /\ IsWordChar(text[p])
        after  == p < Len(text) /\ IsWordChar(text[p + 1])
    IN  before # after

\* _has_word without the \b assertions: a plain substring search
_has_word_substring(text, word) == Contains(text, word)

\* _has_word(text, word): re.search(\b<word>\b, text) is not None
_has_word(text, word) ==
    \E i \in 1..(Len(text) - Len(word) + 1) :
        /\ SubSeq(text, i, i + Len(word) - 1) = word
        /\ WordBoundary(text, i - 1)
        /\ WordBoundary(text, i + Len(word) - 1)

(***************************************************************************)
(* The fixed term tables (agent/comedogen_base.py)                         *)
(***************************************************************************)
\* the hard terms in the order the set literal lists them
hard_declared ==
    << <<"l", "a", "n", "o", "l", "i", "n">>,
       <<"p", "e", "t", "r", "o", "l", "a", "t", "u", "m">>,
       <<"p", "a", "r", "a", "f", "f", "i", "n", "u", "m">>,
       <<"k", "e", "r", "o", "s", "i", "n", "u", "m">>,
       <<"c", "e", "r", "e", "s", "i", "n">>,
       <<"w", "a", "x">>,
       <<"c", "e", "r", "a", " ", "w", "a", "x">>,
       <<"p", "a", "l", "m", "i", "t", "i", "c", " ", "a", "c", "i", "d">>,
       <<"s", "t", "e", "a", "r", "i", "c", " ", "a", "c", "i", "d">>,
       <<"l", "a", "u", "r", "i", "c", " ", "a", "c", "i", "d">>,
       <<"m", "y", "r", "i", "s", "t", "i", "c", " ", "a", "c", "i", "d">>,
       <<"c", "a", "p", "r", "i", "c", " ", "a", "c", "i", "d">>,
       <<"c", "a", "p", "r", "y", "l", "i", "c", " ", "a", "c", "i", "d">>,
       <<"o", "l", "i", "v", "e", " ", "o", "i", "l">>,
       <<"s", "o", "y", "b", "e", "a", "n", " ", "o", "i", "l">>,
       <<"c", "o", "r", "n", " ", "o", "i", "l">>,
       <<"c", "o", "t", "t", "o", "n", "s", "e", "e", "d", " ", "o", "i", "l">>,
       <<"s", "e", "s", "a", "m", "e", " ", "o", "i", "l">>,
       <<"a", "r", "a", "c", "h", "i", "s", " ", "o", "i", "l">> >>

\* hard_comedogens: an unordered set of terms
hard_comedogens == { hard_declared[i] : i \in DOMAIN hard_declared }

\* conditional_comedogens: term -> early-position cutoff, in insertion order
conditional_comedogens ==
    << [term |-> <<"s", "h", "e", "a", " ", "b", "u", "t", "t", "e", "r">>, cutoff |-> 5],
       [term |-> <<"l", "a", "n", "o", "l", "i", "n">>, cutoff |-> 5],
       [term |-> <<"s", "q", "u", "a", "l", "e", "n", "e">>, cutoff |-> 5],
       [term |-> <<"s", "q", "u", "a", "l", "a", "n", "e">>, cutoff |-> 5],
       [term |-> <<"g", "r", "a", "p", "e", " ", "s", "e", "e", "d", " ", "o", "i", "l">>, cutoff |-> 5],
       [term |-> <<"s", "i", "l">>, cutoff |-> 5],
       [term |-> <<"m", "e", "t", "h", "i", "c", "o", "n", "e">>, cutoff |-> 5],
       [term |-> <<"d", "i", "m", "e", "t", "h", "i", "c", "o", "n", "e">>, cutoff |-> 5] >>

\* the six acid terms of the tuple at agent.py lines 110-117
acid_terms ==
    { <<"p", "a", "l", "m", "i", "t", "i", "c", " ", "a", "c", "i", "d">>,
       <<"s", "t", "e", "a", "r", "i", "c", " ", "a", "c", "i", "d">>,
       <<"l", "a", "u", "r", "i", "c", " ", "a", "c", "i", "d">>,
       <<"m", "y", "r", "i", "s", "t", "i", "c", " ", "a", "c", "i", "d">>,
       <<"c", "a", "p", "r", "i", "c", " ", "a", "c", "i", "d">>,
       <<"c", "a", "p", "r", "y", "l", "i", "c", " ", "a", "c", "i", "d">> }

\* the alternatives of _acid_derivative_pattern
derivative_words ==
    { <<"p", "a", "l", "m", "i", "t", "a", "t", "e">>,
       <<"s", "t", "e", "a", "r", "a", "t", "e">>,
       <<"l", "a", "u", "r", "a", "t", "e">>,
       <<"m", "y", "r", "i", "s", "t", "a", "t", "e">>,
       <<"c", "a", "p", "r", "a", "t", "e">>,
       <<"c", "a", "p", "r", "y", "l", "a", "t", "e">> }

\* the terms of the two tables, and _norm of each term computed once: the
\* loops of classify_ingredient_strict call _norm on nothing but these
TableTerms ==
    hard_comedogens \cup
    { conditional_comedogens[i].term : i \in DOMAIN conditional_comedogens }

norm_of_term ==
    [t \in TableTerms \cup { _norm(u) : u \in TableTerms } |-> _norm(t)]

\* _matches_phrase matching a phrase by the root of its first word ("palmitic
\* acid" by "palmit"), which a derivative of the acid shares
_matches_phrase_root(term, ingredient_norm) ==
    LET t == norm_of_term[term]
        first == CHOOSE k \in 1..Len(t) : t[k] = " " /\ \A j \in 1..(k - 1) : t[j] # " "
    IN  IF Contains(t, <<" ">>)
        THEN Contains(ingredient_norm, SubSeq(t, 1, first - 3))
        ELSE _has_word(ingredient_norm, t)

\* _matches_phrase(term, ingredient_norm), term a term of the tables
_matches_phrase(term, ingredient_norm) ==
    LET t == norm_of_term[term]
    IN  IF Contains(t, <<" ">>)
        THEN Contains(ingredient_norm, t)
        ELSE _has_word(ingredient_norm, t)

wax == <<"w", "a", "x">>
sil == <<"s", "i", "l">>
acid == <<"a", "c", "i", "d">>
methicone == <<"m", "e", "t", "h", "i", "c", "o", "n", "e">>
dimethicone == <<"d", "i", "m", "e", "t", "h", "i", "c", "o", "n", "e">>

Reverse(s) == [i \in DOMAIN s |-> s[Len(s) + 1 - i]]

\* iteration orders of the set hard_comedogens that the model explores (the
\* order of a Python set of str is not fixed by the language)
HardOrders == { hard_declared, Reverse(hard_declared) }

(***************************************************************************)
(* Inputs                                                                  *)
(***************************************************************************)
\* pieces that generated ingredient names are concatenated from
Fragments ==
    { <<"w", "a", "x">>,
       <<"B", "e", "e", "s">>,
       <<"i", "l", "l", "i", "n">>,
       <<" ">>,
       <<"-">>,
       <<",">>,
       <<"s", "i", "l">>,
       <<"i", "c", "a">>,
       <<"S", "t", "e", "a", "r">>,
       <<"i", "c", " ", "A", "c", "i", "d">>,
       <<"a", "t", "e">>,
       <<"L", "a", "n", "o", "l", "i", "n">>,
       <<"m", "e", "t", "h", "i", "c", "o", "n", "e">>,
       <<"D", "i">>,
       <<"2">> }

RECURSIVE Concat(_)
Concat(ss) == IF ss = <<>> THEN <<>> ELSE Head(ss) \o Concat(Tail(ss))

GeneratedNames ==
    UNION { { Concat(fs) : fs \in [1..k -> Fragments] } : k \in 0..MaxFrags }

\* ingredient names quoted by the documentation of the rules
ExampleNames ==
    { <<"B", "e", "e", "s", "w", "a", "x">>,
       <<"C", "a", "n", "d", "e", "l", "i", "l", "l", "a", " ", "W", "a", "x">>,
       <<"W", "a", "x", "i", "l", "l", "i", "n">>,
       <<"S", "i", "l", "i", "c", "a">>,
       <<"M", "e", "t", "h", "y", "l", " ", "T", "r", "i", "m", "e", "t", "h", "i", "c", "o", "n", "e">>,
       <<"P", "a", "l", "m", "i", "t", "i", "c", " ", "A", "c", "i", "d">>,
       <<"S", "t", "e", "a", "r", "i", "c", " ", "A", "c", "i", "d">>,
       <<"L", "a", "u", "r", "i", "c", " ", "A", "c", "i", "d">>,
       <<"M", "y", "r", "i", "s", "t", "i", "c", " ", "A", "c", "i", "d">>,
       <<"C", "a", "p", "r", "i", "c", " ", "A", "c", "i", "d">>,
       <<"C", "a", "p", "r", "y", "l", "i", "c", " ", "A", "c", "i", "d">>,
       <<"S", "o", "d", "i", "u", "m", " ", "P", "a", "l", "m", "i", "t", "a", "t", "e">>,
       <<"G", "l", "y", "c", "e", "r", "y", "l", " ", "S", "t", "e", "a", "r", "a", "t", "e">>,
       <<"S", "o", "d", "i", "u", "m", " ", "L", "a", "u", "r", "a", "t", "e">>,
       <<"I", "s", "o", "p", "r", "o", "p", "y", "l", " ", "M", "y", "r", "i", "s", "t", "a", "t", "e">>,
       <<"S", "o", "d", "i", "u", "m", " ", "C", "a", "p", "r", "a", "t", "e">>,
       <<"S", "o", "d", "i", "u", "m", " ", "C", "a", "p", "r", "y", "l", "a", "t", "e">>,
       <<"A", "q", "u", "a">>,
       <<"D", "i", "m", "e", "t", "h", "i", "c", "o", "n", "e", " ", "W", "a", "x">>,
       <<"O", "l", "i", "v", "e", " ", "O", "i", "l", ",", " ", "S", "q", "u", "a", "l", "a", "n", "e">>,
       <<"S", "t", "e", "a", "r", "i", "c", " ", "A", "c", "i", "d", ",", " ", "G", "l", "y", "c", "e", "r", "y", "l", " ", "S", "t", "e", "a", "r", "a", "t", "e">> }

Names == GeneratedNames \cup ExampleNames

VARIABLES
    hard_iter,      \* the order in which this process iterates hard_comedogens
    pc,             \* where the modelled call or pipeline stands
    name,           \* classify_ingredient_strict: argument name
    position,       \* classify_ingredient_strict: argument position
    flags,          \* classify_ingredient_strict: returned dict
    raw_ingredients,\* the "ingredients" list as the lookup step returned it
    ingredients,    \* the payload's "ingredients" list (list of dicts)
    risk_level,     \* data["risk_level"] ("unset": the key is absent)
    composition,    \* the lines of the last composition message
    step2_payload,  \* the payload run_agent_step2 last built
    raw_text,       \* _norm: argument
    normed,         \* _norm: outcome of the call on raw_text
    renormed,       \* _norm: outcome of the call on the first call's result
    value,          \* _normalize_source_url: argument
    url,            \* _normalize_source_url: outcome of the call
    error,          \* data["error"] ("unset": the key is absent)
    presented,      \* the risk level the step-1 answer shows
    step1_cache,    \* what _run_step1_and_answer passed to _cache_put
    STEP2_CACHE,    \* bot.py STEP2_CACHE: the tokens that have an entry
    STEP2_INFLIGHT, \* bot.py STEP2_INFLIGHT: the tokens marked in flight
    issued,         \* the tokens _cache_put has returned so far
    ttl_passed,     \* tokens whose entry is older than STEP2_CACHE_TTL_SEC
    callbacks,      \* per token: handle_step2_callback runs suspended at an await
    tasks,          \* per token: number of _run_step2_background tasks running
    started,        \* per token: number of step-2 background tasks created
    answers,        \* per token: how its last callback was answered
    clicks          \* number of callbacks delivered so far

core_vars == << hard_iter, pc, name, position, flags, raw_ingredients, ingredients,
                risk_level, composition, step2_payload >>
core_vars_but_pc == << hard_iter, name, position, flags, raw_ingredients,
                       ingredients, risk_level, composition, step2_payload >>
norm_vars == << raw_text, normed, renormed >>
url_vars == << value, url >>
answer_vars == << error, presented, step1_cache >>
cache_vars == << STEP2_CACHE, STEP2_INFLIGHT, issued, ttl_passed, callbacks, tasks,
                 started, answers, clicks >>

vars == << core_vars, norm_vars, url_vars, answer_vars, cache_vars >>

\* before any callback: no composition message, no step-2 payload
no_composition == [shown |-> FALSE, marked |-> <<>>, listing |-> <<>>]
no_step2_payload == [built |-> FALSE, comedogens |-> <<>>, inci |-> <<>>]

\* the step-2 cache tokens of the model
Tokens == { "tok1", "tok2" }

\* no call made yet: the outcome of a call is that it returned a result or
\* that it raised
no_value == [kind |-> "none", s |-> <<>>]
no_outcome == [returned |-> FALSE, raised |-> FALSE, result |-> no_value]
no_step1_cache == [put |-> FALSE, risk_level |-> "unset"]

\* no handle_step2_callback run is suspended at either of its two awaits
no_callbacks == [awaiting_answer |-> 0, awaiting_message |-> 0]
\* no callback answered yet; an entry records the handler, its answer and
\* whether, when the callback arrived, a step-2 task of the token was running
\* (in_flight) or had run to its end (finished)
no_answer == [kind |-> "none", answer |-> "none", in_flight |-> FALSE, finished |-> FALSE]

\* the variables of the calls and handlers a specification does not exercise
NormIdle == raw_text = no_value /\ normed = no_outcome /\ renormed = no_outcome
UrlIdle == value = no_value /\ url = no_outcome
AnswerIdle == error = "unset" /\ presented = "unset" /\ step1_cache = no_step1_cache
CacheIdle ==
    /\ STEP2_CACHE = {}
    /\ STEP2_INFLIGHT = {}
    /\ issued = {}
    /\ ttl_passed = {}
    /\ callbacks = [t \in Tokens |-> no_callbacks]
    /\ tasks = [t \in Tokens |-> 0]
    /\ started = [t \in Tokens |-> 0]
    /\ answers = [t \in Tokens |-> no_answer]
    /\ clicks = 0

(***************************************************************************)
(* classify_ingredient_strict                                              *)
(***************************************************************************)
hard_flags == [is_hard |-> TRUE, is_conditional |-> FALSE, early_conditional |-> FALSE]
no_flags == [is_hard |-> FALSE, is_conditional |-> FALSE, early_conditional |-> FALSE]
conditional_flags_strict_less(pos, cutoff) ==
    [is_hard |-> FALSE, is_conditional |-> TRUE, early_conditional |-> pos < cutoff]

conditional_flags(pos, cutoff) ==
    [is_hard |-> FALSE, is_conditional |-> TRUE, early_conditional |-> pos <= cutoff]

\* _acid_derivative_pattern.search(n) is not None (flags=re.I)
_acid_derivative_pattern(n) ==
    \E d \in derivative_words : _has_word(lower(n), d)

\* the wax special rule: `"wax" in n and _has_word(n, "wax")`
wax_rule(n) == Contains(n, wax) /\ _has_word(n, wax)

\* hard_loop with `break` for the `continue` of the acid branch: an acid
\* term that does not match ends the loop
RECURSIVE hard_loop_break(_, _)
hard_loop_break(terms, n) ==
    IF terms = <<>> THEN FALSE
    ELSE LET t == norm_of_term[Head(terms)]
         IN  IF t \in acid_terms
             THEN _matches_phrase(t, n)
             ELSE IF _matches_phrase(t, n)
                  THEN IF _acid_derivative_pattern(n) /\ Contains(t, acid)
                       THEN hard_loop_break(Tail(terms), n)
                       ELSE TRUE
                  ELSE hard_loop_break(Tail(terms), n)

\* hard_loop with the derivative guard put on the acid branch as well: a
\* name with a derivative word is never matched by an acid term
RECURSIVE hard_loop_acid_guarded(_, _)
hard_loop_acid_guarded(terms, n) ==
    IF terms = <<>> THEN FALSE
    ELSE LET t == norm_of_term[Head(terms)]
         IN  IF _matches_phrase(t, n)
                  /\ ~(_acid_derivative_pattern(n) /\ Contains(t, acid))
             THEN TRUE
             ELSE hard_loop_acid_guarded(Tail(terms), n)

\* the loop over hard_comedogens, in the order `terms`: TRUE when it returns
\* the hard dict, FALSE when it runs to its end
RECURSIVE hard_loop(_, _)
hard_loop(terms, n) ==
    IF terms = <<>> THEN FALSE
    ELSE LET t == norm_of_term[Head(terms)]
         IN  IF t \in acid_terms
             THEN IF _matches_phrase(t, n) THEN TRUE
                  ELSE hard_loop(Tail(terms), n)
             ELSE IF _matches_phrase(t, n)
                  THEN IF _acid_derivative_pattern(n) /\ Contains(t, acid)
                       THEN hard_loop(Tail(terms), n)
                       ELSE TRUE
                  ELSE hard_loop(Tail(terms), n)

\* conditional_loop without the partial-match branch for methicone and
\* dimethicone: they are matched as whole words like the other terms
RECURSIVE conditional_loop_whole_word(_, _, _)
conditional_loop_whole_word(items, n, pos) ==
    IF items = <<>> THEN no_flags
    ELSE LET t == norm_of_term[Head(items).term]
             cutoff == Head(items).cutoff
         IN  IF t = sil
             THEN IF _has_word(n, sil) THEN conditional_flags(pos, cutoff)
                  ELSE conditional_loop_whole_word(Tail(items), n, pos)
             ELSE IF _matches_phrase(t, n) THEN conditional_flags(pos, cutoff)
                  ELSE conditional_loop_whole_word(Tail(items), n, pos)

\* the loop over conditional_comedogens.items(): the dict it returns, or the
\* final all-false dict when it runs to its end
RECURSIVE conditional_loop(_, _, _)
conditional_loop(items, n, pos) ==
    IF items = <<>> THEN no_flags
    ELSE LET t == norm_of_term[Head(items).term]
             cutoff == Head(items).cutoff
         IN  IF t = sil
             THEN IF _has_word(n, sil) THEN conditional_flags(pos, cutoff)
                  ELSE conditional_loop(Tail(items), n, pos)
             ELSE IF t \in {methicone, dimethicone}
                  THEN IF Contains(n, t) THEN conditional_flags(pos, cutoff)
                       ELSE conditional_loop(Tail(items), n, pos)
                  ELSE IF _matches_phrase(t, n) THEN conditional_flags(pos, cutoff)
                       ELSE conditional_loop(Tail(items), n, pos)

\* iteration orders of conditional_comedogens.items() that the model explores
\* (a dict iterates in insertion order; the reverse stands for a table built
\* in another order)
CondOrders == { conditional_comedogens, Reverse(conditional_comedogens) }

\* the rules after `n = _norm(name)` with the conditional loop run first: a
\* conditional match wins over a hard one
classify_norm_conditional_first(hard_order, cond_items, n, pos) ==
    LET c == conditional_loop(cond_items, n, pos)
    IN  IF c.is_conditional THEN c
        ELSE IF wax_rule(n) \/ hard_loop(hard_order, n) THEN hard_flags
        ELSE no_flags

\* classify_ingredient_strict after `n = _norm(name)`: the wax rule, the hard
\* loop in the order hard_order, the conditional loop in the order
\* cond_items, the final all-false dict
classify_norm(hard_order, cond_items, n, pos) ==
    IF wax_rule(n) THEN hard_flags
    ELSE IF hard_loop(hard_order, n) THEN hard_flags
    ELSE conditional_loop(cond_items, n, pos)

\* classify_ingredient_strict with the conditional loop run whatever the hard
\* rules found: the hard check no longer short-circuits the conditional one
classify_with_both_tables(hard_order, nm, pos) ==
    LET n == _norm(nm)
        c == conditional_loop(conditional_comedogens, n, pos)
    IN  [c EXCEPT !.is_hard = wax_rule(n) \/ hard_loop(hard_order, n)]

\* the body of classify_ingredient_strict(name, position), name a str, with
\* the set hard_comedogens iterated in the order hard_order
classify_with(hard_order, nm, pos) ==
    LET n == _norm(nm)
    IN  classify_norm(hard_order, conditional_comedogens, n, pos)

\* the names of the payloads' ingredients (Lanolin, Dimethicone, Aqua and
\* the empty name), whose classification is computed once
PayloadNames ==
    { <<"L", "a", "n", "o", "l", "i", "n">>,
      <<"D", "i", "m", "e", "t", "h", "i", "c", "o", "n", "e">>,
      <<"A", "q", "u", "a">>,
      <<>> }

classify_payload_names ==
    [o \in HardOrders |->
        [n \in PayloadNames |->
            [p \in 1..MaxRecs |-> classify_with(o, n, p)]]]

\* classify_ingredient_strict(name, position) in this process, which
\* iterates hard_comedogens in the order hard_iter
classify_ingredient_strict(nm, pos) ==
    IF nm \in PayloadNames /\ pos \in 1..MaxRecs
    THEN classify_payload_names[hard_iter][nm][pos]
    ELSE classify_with(hard_iter, nm, pos)

(***************************************************************************)
(* SpecClassify: one call of classify_ingredient_strict                    *)
(***************************************************************************)
InitClassify ==
    /\ hard_iter \in HardOrders
    /\ pc = "classify"
    /\ name \in Names
    /\ position \in 1..MaxPos
    /\ flags = no_flags
    /\ raw_ingredients = <<>>
    /\ ingredients = <<>>
    /\ risk_level = "unset"
    /\ composition = no_composition
    /\ step2_payload = no_step2_payload
    /\ NormIdle /\ UrlIdle /\ AnswerIdle /\ CacheIdle

Classify ==
    /\ pc = "classify"
    /\ flags' = classify_ingredient_strict(name, position)
    /\ pc' = "classified"
    /\ UNCHANGED << hard_iter, name, position, raw_ingredients, ingredients,
                    risk_level, composition, step2_payload >>
    /\ UNCHANGED << norm_vars, url_vars, answer_vars, cache_vars >>

NextClassify == Classify

SpecClassify == InitClassify /\ [][NextClassify]_vars

(***************************************************************************)
(* calc_risk_level_strict (bot/bot.py)                                     *)
(***************************************************************************)
EARLY_CUTOFF == 5

\* the aggregator's early test with < for <=
is_early_strict_less(idx) == idx < EARLY_CUTOFF

\* the aggregator's early test: `idx <= EARLY_CUTOFF`
is_early(idx) == idx <= EARLY_CUTOFF

\* the loop of calc_risk_level_strict from index idx on: the three lists of
\* positions it has appended to
RECURSIVE calc_loop(_, _, _)
calc_loop(ings, idx, acc) ==
    IF idx > Len(ings) THEN acc
    ELSE LET ing == ings[idx]
             a1 == IF ing.is_hard
                   THEN [acc EXCEPT !.hard_positions = Append(@, idx)]
                   ELSE acc
             a2 == IF ing.is_conditional
                   THEN [a1 EXCEPT
                            !.conditional_positions = Append(@, idx),
                            !.early_conditionals =
                                IF is_early(idx) THEN Append(@, idx) ELSE @]
                   ELSE a1
         IN  calc_loop(ings, idx + 1, a2)

calc_positions(ings) ==
    calc_loop(ings, 1, [hard_positions |-> <<>>,
                        conditional_positions |-> <<>>,
                        early_conditionals |-> <<>>])

\* the chain of returns without the medium return
calc_branch_no_medium(ings) ==
    LET p == calc_positions(ings)
    IN  IF p.hard_positions # <<>> \/ Len(p.early_conditionals) >= 2 THEN "high"
        ELSE IF /\ p.conditional_positions # <<>>
                /\ p.early_conditionals = <<>>
                /\ p.hard_positions = <<>> THEN "low"
        ELSE IF p.hard_positions = <<>> /\ p.conditional_positions = <<>> THEN "none"
        ELSE "fallback"

\* the chain of returns with `>= 2` written as `> 2`
calc_branch_more_than_two(ings) ==
    LET p == calc_positions(ings)
    IN  IF p.hard_positions # <<>> \/ Len(p.early_conditionals) > 2 THEN "high"
        ELSE IF Len(p.early_conditionals) = 1 /\ p.hard_positions = <<>> THEN "medium"
        ELSE IF /\ p.conditional_positions # <<>>
                /\ p.early_conditionals = <<>>
                /\ p.hard_positions = <<>> THEN "low"
        ELSE IF p.hard_positions = <<>> /\ p.conditional_positions = <<>> THEN "none"
        ELSE "fallback"

\* the return statement calc_risk_level_strict leaves through ("fallback":
\* the last one)
calc_branch(ings) ==
    LET p == calc_positions(ings)
    IN  IF p.hard_positions # <<>> \/ Len(p.early_conditionals) >= 2 THEN "high"
        ELSE IF Len(p.early_conditionals) = 1 /\ p.hard_positions = <<>> THEN "medium"
        ELSE IF /\ p.conditional_positions # <<>>
                /\ p.early_conditionals = <<>>
                /\ p.hard_positions = <<>> THEN "low"
        ELSE IF p.hard_positions = <<>> /\ p.conditional_positions = <<>> THEN "none"
        ELSE "fallback"

calc_risk_level_strict(ings) ==
    IF calc_branch(ings) = "fallback" THEN "none" ELSE calc_branch(ings)

(***************************************************************************)
(* Ingredient dicts                                                        *)
(*                                                                         *)
(* A dict is a record: name is the value ing.get("name") gives (None also  *)
(* when the key is absent), the three flags are the truth values that      *)
(* ing.get(...) gives (an absent key reads as false).                      *)
(***************************************************************************)
PyStr(s) == [kind |-> "str", s |-> s]
PyNone == [kind |-> "none", s |-> <<>>]
\* a number other than 0 (a JSON value that is no string)
PyNum == [kind |-> "num", s |-> <<>>]

\* `not v`
Falsy(v) == v.kind = "none" \/ (v.kind = "str" /\ v.s = <<>>)

Ingredient(nm, h, c, e) ==
    [name |-> nm, is_hard |-> h, is_conditional |-> c, _early_conditional |-> e]

Lanolin == <<"L", "a", "n", "o", "l", "i", "n">>
Dimethicone == <<"D", "i", "m", "e", "t", "h", "i", "c", "o", "n", "e">>
Aqua == <<"A", "q", "u", "a">>

\* named ingredients, with the flags the lookup step claims for them
NamedIngredients ==
    { Ingredient(PyStr(Lanolin), TRUE, TRUE, FALSE),
      Ingredient(PyStr(Dimethicone), TRUE, FALSE, FALSE),
      Ingredient(PyStr(Aqua), FALSE, FALSE, FALSE) }

\* every kind of dict the lookup step may return: also an empty name, a
\* missing name and a name that is no string
RawIngredients ==
    NamedIngredients \cup
    { Ingredient(PyStr(<<>>), TRUE, FALSE, TRUE),
      Ingredient(PyNone, FALSE, TRUE, FALSE),
      Ingredient(PyNum, FALSE, FALSE, FALSE) }

SeqsOf(S, lo, hi) == UNION { [1..k -> S] : k \in lo..hi }

\* the ingredient lists of the payloads: every list of up to MaxIngr raw
\* dicts, and the longer lists of named ingredients, which reach past
\* EARLY_CUTOFF
Payloads ==
    SeqsOf(RawIngredients, 0, MaxIngr) \cup SeqsOf(NamedIngredients, MaxIngr + 1, MaxRecs)

(***************************************************************************)
(* apply_comedogenic_flags_strict (agent/agent.py)                         *)
(***************************************************************************)
\* `ing.get("name") or ""`
name_or_empty(ing) == IF Falsy(ing.name) THEN PyStr(<<>>) ELSE ing.name

\* the loop body for a falsy name written as `if not name: continue`
apply_element_skip_empty(ing, idx) ==
    IF Falsy(ing.name) THEN ing
    ELSE LET f == classify_ingredient_strict(name_or_empty(ing).s, idx)
         IN  [ing EXCEPT !.is_hard = f.is_hard,
                         !.is_conditional = f.is_conditional,
                         !._early_conditional = f.early_conditional]

\* the loop body for element idx, whose name is a str
apply_element(ing, idx) ==
    LET f == classify_ingredient_strict(name_or_empty(ing).s, idx)
    IN  [ing EXCEPT !.is_hard = f.is_hard,
                    !.is_conditional = f.is_conditional,
                    !._early_conditional = f.early_conditional]

\* the loop from index idx on; _norm raises AttributeError on a name that is
\* no str, which ends the loop with the elements before it flagged
RECURSIVE apply_loop(_, _)
apply_loop(ings, idx) ==
    IF idx > Len(ings) THEN [ingredients |-> ings, raised |-> FALSE]
    ELSE IF name_or_empty(ings[idx]).kind # "str"
         THEN [ingredients |-> ings, raised |-> TRUE]
         ELSE apply_loop([ings EXCEPT ![idx] = apply_element(ings[idx], idx)], idx + 1)

apply_comedogenic_flags_strict(ings) == apply_loop(ings, 1)

(***************************************************************************)
(* run_agent_step2: the payload built from the step-1 data                 *)
(***************************************************************************)
comedogen_entry(ing, pos) ==
    [name |-> ing.name, position |-> pos,
     type |-> IF ing.is_hard THEN "hard" ELSE "conditional"]

\* the loop numbering a comedogen by its place among the named ingredients
RECURSIVE step2_loop_renumbered(_, _, _)
step2_loop_renumbered(ings, idx, acc) ==
    IF idx > Len(ings) THEN acc
    ELSE LET ing == ings[idx]
         IN  IF Falsy(ing.name) THEN step2_loop_renumbered(ings, idx + 1, acc)
             ELSE LET inci == Append(acc.inci, ing.name)
                  IN  step2_loop_renumbered(ings, idx + 1,
                          [acc EXCEPT
                              !.inci = inci,
                              !.comedogens =
                                  IF ing.is_hard \/ ing.is_conditional
                                  THEN Append(@, comedogen_entry(ing, Len(inci)))
                                  ELSE @])

\* the loop `for idx, ing in enumerate(ingredients, start=1)` from idx on
RECURSIVE step2_loop(_, _, _)
step2_loop(ings, idx, acc) ==
    IF idx > Len(ings) THEN acc
    ELSE LET ing == ings[idx]
         IN  IF Falsy(ing.name) THEN step2_loop(ings, idx + 1, acc)
             ELSE step2_loop(ings, idx + 1,
                      [acc EXCEPT
                          !.inci = Append(@, ing.name),
                          !.comedogens =
                              IF ing.is_hard \/ ing.is_conditional
                              THEN Append(@, comedogen_entry(ing, idx))
                              ELSE @])

build_step2_payload(ings) ==
    step2_loop(ings, 1, [built |-> TRUE, comedogens |-> <<>>, inci |-> <<>>])

(***************************************************************************)
(* build_composition_message: the numbered lines of the message            *)
(***************************************************************************)
_mark_for_component(is_hard, is_cond) ==
    IF is_hard THEN "red" ELSE IF is_cond THEN "orange" ELSE "white"

composition_line(ing, idx) ==
    [mark |-> _mark_for_component(ing.is_hard, ing.is_conditional),
     idx |-> idx, name |-> ing.name]

\* "Отмеченные компоненты": the named hard and conditional ingredients
RECURSIVE marked_lines(_, _)
marked_lines(ings, idx) ==
    IF idx > Len(ings) THEN <<>>
    ELSE LET ing == ings[idx]
         IN  IF Falsy(ing.name) THEN marked_lines(ings, idx + 1)
             ELSE IF ing.is_hard \/ ing.is_conditional
                  THEN <<composition_line(ing, idx)>> \o marked_lines(ings, idx + 1)
                  ELSE marked_lines(ings, idx + 1)

\* "Список ингредиентов": every named ingredient
RECURSIVE listing_lines(_, _)
listing_lines(ings, idx) ==
    IF idx > Len(ings) THEN <<>>
    ELSE LET ing == ings[idx]
         IN  IF Falsy(ing.name) THEN listing_lines(ings, idx + 1)
             ELSE <<composition_line(ing, idx)>> \o listing_lines(ings, idx + 1)

build_composition_message(ings) ==
    LET has_comedogens ==
            \E i \in DOMAIN ings : ings[i].is_hard \/ ings[i].is_conditional
    IN  [shown |-> TRUE,
         marked |-> IF has_comedogens THEN marked_lines(ings, 1) ELSE <<>>,
         listing |-> listing_lines(ings, 1)]

(***************************************************************************)
(* Spec: one product analysis, from the lookup step's payload to the       *)
(* composition and step-2 callbacks                                        *)
(***************************************************************************)
Init ==
    /\ hard_iter \in HardOrders
    /\ pc = "lookup"
    /\ name = <<>>
    /\ position = 1
    /\ flags = no_flags
    /\ raw_ingredients \in Payloads
    /\ ingredients = raw_ingredients
    /\ risk_level = "unset"
    /\ composition = no_composition
    /\ step2_payload = no_step2_payload
    /\ NormIdle /\ UrlIdle /\ AnswerIdle /\ CacheIdle

\* run_agent_step1 after the lookup: flag the ingredients of a non-empty list
AgentStep1 ==
    /\ pc = "lookup"
    /\ LET r == apply_comedogenic_flags_strict(ingredients)
       IN  IF ingredients # <<>>
           THEN /\ ingredients' = r.ingredients
                /\ pc' = IF r.raised THEN "agent_raised" ELSE "agent_returned"
           ELSE /\ ingredients' = ingredients
                /\ pc' = "agent_returned"
    /\ UNCHANGED << hard_iter, name, position, flags, raw_ingredients, risk_level,
                    composition, step2_payload >>
    /\ UNCHANGED << norm_vars, url_vars, answer_vars, cache_vars >>

\* `data.get("risk_level") or "none"`
risk_level_or_none(level) == IF level = "unset" THEN "none" ELSE level

\* build_step1_brief_message: the risk level whose label the answer shows
\* ("not_found": the answer is the composition-not-found message)
build_step1_brief_message(err, level) ==
    IF err = "no_inci" THEN "not_found" ELSE risk_level_or_none(level)

\* _run_step1_and_answer after run_agent_step1 returned: score the list,
\* build the answer, cache the step-1 data
BotStep1 ==
    /\ pc = "agent_returned"
    /\ risk_level' = IF ingredients # <<>> /\ error # "no_inci"
                     THEN calc_risk_level_strict(ingredients)
                     ELSE risk_level
    /\ presented' = build_step1_brief_message(error, risk_level')
    /\ step1_cache' = IF error # "no_inci" /\ ingredients # <<>>
                      THEN [put |-> TRUE, risk_level |-> risk_level']
                      ELSE no_step1_cache
    /\ pc' = "answered"
    /\ UNCHANGED << hard_iter, name, position, flags, raw_ingredients, ingredients,
                    composition, step2_payload, error >>
    /\ UNCHANGED << norm_vars, url_vars, cache_vars >>

\* _run_step1_and_answer when run_agent_step1 raised: ERROR_GENERAL
BotStep1Error ==
    /\ pc = "agent_raised"
    /\ pc' = "error_answered"
    /\ UNCHANGED << hard_iter, name, position, flags, raw_ingredients, ingredients,
                    risk_level, composition, step2_payload >>
    /\ UNCHANGED << norm_vars, url_vars, answer_vars, cache_vars >>

\* handle_composition_callback on the cached step-1 data
CompositionCallback ==
    /\ pc = "answered"
    /\ step1_cache.put
    /\ composition' = build_composition_message(ingredients)
    /\ UNCHANGED << hard_iter, pc, name, position, flags, raw_ingredients,
                    ingredients, risk_level, step2_payload >>
    /\ UNCHANGED << norm_vars, url_vars, answer_vars, cache_vars >>

\* run_agent_step2 on the cached step-1 data
Step2Callback ==
    /\ pc = "answered"
    /\ step1_cache.put
    /\ step2_payload' = build_step2_payload(ingredients)
    /\ UNCHANGED << hard_iter, pc, name, position, flags, raw_ingredients,
                    ingredients, risk_level, composition >>
    /\ UNCHANGED << norm_vars, url_vars, answer_vars, cache_vars >>

Next ==
    \/ AgentStep1
    \/ BotStep1
    \/ BotStep1Error
    \/ CompositionCallback
    \/ Step2Callback

Spec == Init /\ [][Next]_vars

(***************************************************************************)
(* SpecRisk: one call of calc_risk_level_strict on any record sequence     *)
(***************************************************************************)
\* dicts with every combination of the two flags the aggregator reads
FlagRecords == { Ingredient(PyNone, h, c, FALSE) : h \in BOOLEAN, c \in BOOLEAN }

InitRisk ==
    /\ hard_iter = hard_declared
    /\ pc = "score"
    /\ name = <<>>
    /\ position = 1
    /\ flags = no_flags
    /\ raw_ingredients \in SeqsOf(FlagRecords, 0, MaxRecs)
    /\ ingredients = raw_ingredients
    /\ risk_level = "unset"
    /\ composition = no_composition
    /\ step2_payload = no_step2_payload
    /\ NormIdle /\ UrlIdle /\ AnswerIdle /\ CacheIdle

CalcRisk ==
    /\ pc = "score"
    /\ risk_level' = calc_risk_level_strict(ingredients)
    /\ pc' = "scored"
    /\ UNCHANGED << hard_iter, name, position, flags, raw_ingredients, ingredients,
                    composition, step2_payload >>
    /\ UNCHANGED << norm_vars, url_vars, answer_vars, cache_vars >>

NextRisk == CalcRisk

SpecRisk == InitRisk /\ [][NextRisk]_vars

(***************************************************************************)
(* Properties of classify_ingredient_strict (checked under SpecClassify)   *)
(***************************************************************************)
Beeswax == <<"B", "e", "e", "s", "w", "a", "x">>
CandelillaWax == <<"C", "a", "n", "d", "e", "l", "i", "l", "l", "a", " ", "W", "a", "x">>
Waxillin == <<"W", "a", "x", "i", "l", "l", "i", "n">>
Silica == <<"S", "i", "l", "i", "c", "a">>
MethylTrimethicone == <<"M", "e", "t", "h", "y", "l", " ", "T", "r", "i", "m", "e", "t", "h", "i", "c", "o", "n", "e">>
SodiumPalmitate == <<"S", "o", "d", "i", "u", "m", " ", "P", "a", "l", "m", "i", "t", "a", "t", "e">>
PalmiticAcid == <<"P", "a", "l", "m", "i", "t", "i", "c", " ", "A", "c", "i", "d">>

\* the six fatty acids: the exact phrase of the acid and its -ate derivative
FattyAcids ==
    { [acid |-> <<"p", "a", "l", "m", "i", "t", "i", "c", " ", "a", "c", "i", "d">>, ate |-> <<"p", "a", "l", "m", "i", "t", "a", "t", "e">>],
       [acid |-> <<"s", "t", "e", "a", "r", "i", "c", " ", "a", "c", "i", "d">>, ate |-> <<"s", "t", "e", "a", "r", "a", "t", "e">>],
       [acid |-> <<"l", "a", "u", "r", "i", "c", " ", "a", "c", "i", "d">>, ate |-> <<"l", "a", "u", "r", "a", "t", "e">>],
       [acid |-> <<"m", "y", "r", "i", "s", "t", "i", "c", " ", "a", "c", "i", "d">>, ate |-> <<"m", "y", "r", "i", "s", "t", "a", "t", "e">>],
       [acid |-> <<"c", "a", "p", "r", "i", "c", " ", "a", "c", "i", "d">>, ate |-> <<"c", "a", "p", "r", "a", "t", "e">>],
       [acid |-> <<"c", "a", "p", "r", "y", "l", "i", "c", " ", "a", "c", "i", "d">>, ate |-> <<"c", "a", "p", "r", "y", "l", "a", "t", "e">>] }

\* word occurs in the normalized name n delimited on both sides by a space, a
\* hyphen or an end of the name
StandaloneWord(n, word) ==
    \E i \in 1..(Len(n) - Len(word) + 1) :
        /\ SubSeq(n, i, i + Len(word) - 1) = word
        /\ (i = 1 \/ n[i - 1] \in {" ", "-"})
        /\ (i + Len(word) - 1 = Len(n) \/ n[i + Len(word)] \in {" ", "-"})

\* C3: classify("Beeswax", 1).is_hard is true.
C3_BeeswaxIsHard ==
    (pc = "classified" /\ name = Beeswax /\ position = 1) => flags.is_hard

C5_AcidDerivativeExclusion ==
    pc = "classified" =>
        LET n == _norm(name)
        IN  \A x \in FattyAcids :
                /\ Contains(n, x.acid) => flags.is_hard
                /\ (Contains(n, x.ate) /\ \A t \in hard_comedogens : ~Contains(n, t))
                       => ~flags.is_hard

C5_Witness ==
    /\ pc = "classified"
    /\ name = SodiumPalmitate
    /\ position = 3
    /\ ~flags.is_hard

TermMatches(t, n) ==
    IF t \in {methicone, dimethicone} \/ Contains(t, <<" ">>)
    THEN Contains(n, t)
    ELSE StandaloneWord(n, t)

\* C7: early_conditional is true exactly when the ingredient is classified
\* conditional and position <= the cutoff that conditional_comedogens stores
\* for the term that matched; it is false for hard and unmatched ingredients.
C7_EarlyConditional ==
    pc = "classified" =>
        LET n == _norm(name)
            hits == { i \in DOMAIN conditional_comedogens :
                          TermMatches(conditional_comedogens[i].term, n) }
            first == CHOOSE i \in hits : \A j \in hits : i <= j
        IN  /\ flags.is_conditional => hits # {}
            /\ flags.early_conditional =
                   (flags.is_conditional /\ position <= conditional_comedogens[first].cutoff)

C7_Witness ==
    /\ pc = "classified"
    /\ flags.is_conditional
    /\ position = 5
    /\ flags.early_conditional

(***************************************************************************)
(* Properties of calc_risk_level_strict (checked under SpecRisk)           *)
(***************************************************************************)
\* C1: with H the number of hard records, C the number of conditional
\* records and E the number of early conditional records (conditional, at a
\* position up to EARLY_CUTOFF), the result is high iff H >= 1 or E >= 2,
\* medium iff H = 0 and E = 1, low iff H = 0 and E = 0 and C >= 1, none iff
\* H = 0 and C = 0; the empty sequence gives none.
C1_DecisionTable ==
    pc = "scored" =>
        LET H == Cardinality({ i \in DOMAIN ingredients : ingredients[i].is_hard })
            C == Cardinality({ i \in DOMAIN ingredients : ingredients[i].is_conditional })
            E == Cardinality({ i \in DOMAIN ingredients :
                                   ingredients[i].is_conditional /\ i <= EARLY_CUTOFF })
        IN  /\ (risk_level = "high") = (H >= 1 \/ E >= 2)
            /\ (risk_level = "medium") = (H = 0 /\ E = 1)
            /\ (risk_level = "low") = (H = 0 /\ E = 0 /\ C >= 1)
            /\ (risk_level = "none") = (H = 0 /\ C = 0)
            /\ ingredients = <<>> => risk_level = "none"

\* one hard record after conditional records past the cutoff: high
C1_Witness ==
    /\ pc = "scored"
    /\ Len(ingredients) = MaxRecs
    /\ ingredients[1].is_conditional /\ ~ingredients[1].is_hard
    /\ ingredients[MaxRecs].is_hard /\ ~ingredients[MaxRecs].is_conditional
    /\ risk_level = "high"

\* C17: the last return of calc_risk_level_strict, the fallback after the
\* four tests, is unreachable: every finite sequence of records leaves the
\* function through one of the four returns before it.
C17_FallbackUnreachable ==
    pc = "scored" => calc_branch(ingredients) # "fallback"

\* a longest sequence that fails the first three tests and leaves through
\* the fourth return, the last one before the fallback
C17_Witness ==
    /\ pc = "scored"
    /\ Len(ingredients) = MaxRecs
    /\ calc_branch(ingredients) = "none"
    /\ risk_level = "none"

(***************************************************************************)
(* Properties of the product analysis (checked under Spec)                 *)
(***************************************************************************)
Flagged == pc \in {"agent_returned", "answered"}

\* C2: classify_ingredient_strict never returns is_hard and is_conditional
\* both true, and after apply_comedogenic_flags_strict no record of the list
\* has both flags set.
C2_FlagsExclusive ==
    \* the classifier on every name and position, once per iteration order
    /\ (pc = "lookup" /\ raw_ingredients = <<>>) =>
           \A n \in Names, p \in 1..MaxPos :
               LET f == classify_ingredient_strict(n, p)
               IN  ~(f.is_hard /\ f.is_conditional)
    \* the records of a flagged list
    /\ Flagged =>
           \A i \in DOMAIN ingredients :
               /\ ~(ingredients[i].is_hard /\ ingredients[i].is_conditional)
               /\ LET f == classify_ingredient_strict(name_or_empty(ingredients[i]).s, i)
                  IN  ~(f.is_hard /\ f.is_conditional)

\* a flagged list with an ingredient of both tables that came in with both
\* flags set
C2_Witness ==
    /\ pc = "agent_returned"
    /\ \E i \in DOMAIN ingredients :
           /\ raw_ingredients[i].name = PyStr(Lanolin)
           /\ raw_ingredients[i].is_hard /\ raw_ingredients[i].is_conditional
           /\ ingredients[i].is_hard /\ ~ingredients[i].is_conditional

\* C8: in a list flagged by apply_comedogenic_flags_strict and scored by
\* calc_risk_level_strict, the records the aggregator counts as early
\* conditionals are exactly the records whose is_conditional and
\* _early_conditional flags are both true.
C8_EarlyAgrees ==
    pc = "answered" =>
        LET early == calc_positions(ingredients).early_conditionals
        IN  { early[k] : k \in DOMAIN early } =
                { i \in DOMAIN ingredients :
                      ingredients[i].is_conditional /\ ingredients[i]._early_conditional }

\* a scored list with a conditional ingredient at the cutoff and one past it
C8_Witness ==
    /\ pc = "answered"
    /\ Len(ingredients) > EARLY_CUTOFF
    /\ ingredients[EARLY_CUTOFF].is_conditional
    /\ ingredients[EARLY_CUTOFF]._early_conditional
    /\ ingredients[EARLY_CUTOFF + 1].is_conditional
    /\ ~ingredients[EARLY_CUTOFF + 1]._early_conditional
    /\ risk_level = "medium"

Range(s) == { s[k] : k \in DOMAIN s }

\* C9: element i of the input keeps place i through flagging (nothing is
\* reordered, dropped or deduplicated), its flags are those of its own name
\* at position i, and the aggregator, the composition message and the step-2
\* payload number it i as well, also with duplicate and empty names.
C9_StablePositions ==
    Flagged =>
        /\ Len(ingredients) = Len(raw_ingredients)
        /\ \A i \in DOMAIN ingredients :
               LET f == classify_ingredient_strict(name_or_empty(raw_ingredients[i]).s, i)
               IN  /\ ingredients[i].name = raw_ingredients[i].name
                   /\ ingredients[i].is_hard = f.is_hard
                   /\ ingredients[i].is_conditional = f.is_conditional
                   /\ ingredients[i]._early_conditional = f.early_conditional
        /\ LET p == calc_positions(ingredients)
           IN  /\ Range(p.hard_positions) =
                      { i \in DOMAIN ingredients : ingredients[i].is_hard }
               /\ Range(p.conditional_positions) =
                      { i \in DOMAIN ingredients : ingredients[i].is_conditional }
        /\ composition.shown =>
               /\ \A k \in DOMAIN composition.listing :
                      LET l == composition.listing[k]
                      IN  /\ l.idx \in DOMAIN raw_ingredients
                          /\ l.name = raw_ingredients[l.idx].name
                          /\ \A j \in 1..(k - 1) : composition.listing[j].idx < l.idx
               /\ { composition.listing[k].idx : k \in DOMAIN composition.listing } =
                      { i \in DOMAIN raw_ingredients : ~Falsy(raw_ingredients[i].name) }
               /\ \A k \in DOMAIN composition.marked :
                      composition.marked[k] \in Range(composition.listing)
        /\ step2_payload.built =>
               /\ \A k \in DOMAIN step2_payload.comedogens :
                      LET e == step2_payload.comedogens[k]
                      IN  /\ e.position \in DOMAIN raw_ingredients
                          /\ e.name = raw_ingredients[e.position].name
                          /\ ingredients[e.position].is_hard = (e.type = "hard")
               /\ { step2_payload.comedogens[k].position :
                        k \in DOMAIN step2_payload.comedogens } =
                      { i \in DOMAIN ingredients :
                            /\ ~Falsy(ingredients[i].name)
                            /\ ingredients[i].is_hard \/ ingredients[i].is_conditional }

\* both callbacks answered for a list in which an empty name and a duplicate
\* come before a comedogen
C9_Witness ==
    /\ pc = "answered"
    /\ composition.shown
    /\ step2_payload.built
    /\ Len(ingredients) >= 4
    /\ Falsy(ingredients[1].name)
    /\ ingredients[2].name = ingredients[3].name
    /\ ingredients[4].is_conditional
    /\ \E k \in DOMAIN step2_payload.comedogens :
           step2_payload.comedogens[k].position = 4

\* C10 as stated: an ingredient whose name is missing or empty is skipped by
\* the batch classification: it contributes no record, or the loop passes
\* over its record and leaves it as it came.
C10_EmptyNameSkipped ==
    pc = "agent_returned" =>
        \/ Len(ingredients) =
               Cardinality({ i \in DOMAIN raw_ingredients : ~Falsy(raw_ingredients[i].name) })
        \/ \A i \in DOMAIN raw_ingredients :
               Falsy(raw_ingredients[i].name) => ingredients[i] = raw_ingredients[i]

\* C10 as amended: an ingredient whose name is missing or empty is not
\* skipped by the batch classification: it is classified as the empty name,
\* so its record keeps its place with all three flags false, and the batch
\* does not fail because of it (it fails only on a name that is no string);
\* the composition message and the step-2 payload leave it out.
C10_EmptyNameClassified ==
    /\ pc = "agent_raised" =>
           \E i \in DOMAIN raw_ingredients : raw_ingredients[i].name.kind = "num"
    /\ Flagged =>
           /\ Len(ingredients) = Len(raw_ingredients)
           /\ \A i \in DOMAIN raw_ingredients :
                  Falsy(raw_ingredients[i].name) =>
                      /\ ingredients[i].name = raw_ingredients[i].name
                      /\ ~ingredients[i].is_hard
                      /\ ~ingredients[i].is_conditional
                      /\ ~ingredients[i]._early_conditional
                      /\ \A k \in DOMAIN composition.listing :
                             composition.listing[k].idx # i
                      /\ \A k \in DOMAIN step2_payload.comedogens :
                             step2_payload.comedogens[k].position # i
           /\ Len(step2_payload.inci) <=
                  Cardinality({ i \in DOMAIN ingredients : ~Falsy(ingredients[i].name) })

\* a flagged list with an empty and a missing name, both of which came in
\* with a flag set
C10_Witness ==
    /\ pc = "answered"
    /\ composition.shown
    /\ step2_payload.built
    /\ \E i, j \in DOMAIN ingredients :
           /\ raw_ingredients[i].name = PyStr(<<>>) /\ raw_ingredients[i].is_hard
           /\ raw_ingredients[j].name = PyNone /\ raw_ingredients[j].is_conditional
           /\ ingredients[i] = Ingredient(PyStr(<<>>), FALSE, FALSE, FALSE)
           /\ ingredients[j] = Ingredient(PyNone, FALSE, FALSE, FALSE)

(***************************************************************************)
(* SpecNorm: _norm called on a value, then on its own result               *)
(***************************************************************************)
\* longest text (in characters) handed to _norm
MaxText == 3

\* the characters the texts are made of: letters of both cases, a digit,
\* the hyphen, the underscore, punctuation, a letter outside a-z and every
\* kind of whitespace
TextChars == { "a", "Z", "7", "-", "_", ",", "(", "é", " ", "\t", "\n", "\r" }

Texts == UNION { [1..k -> TextChars] : k \in 0..MaxText }

\* the call _norm(v): None and "" go through `text or ""`; a number has no
\* lower() and the call raises
_norm_call(v) ==
    IF v.kind = "num"
    THEN [returned |-> FALSE, raised |-> TRUE, result |-> no_value]
    ELSE [returned |-> TRUE, raised |-> FALSE,
          result |-> PyStr(_norm(IF Falsy(v) THEN <<>> ELSE v.s))]

InitNorm ==
    /\ hard_iter = hard_declared
    /\ pc = "norm"
    /\ name = <<>>
    /\ position = 1
    /\ flags = no_flags
    /\ raw_ingredients = <<>>
    /\ ingredients = <<>>
    /\ risk_level = "unset"
    /\ composition = no_composition
    /\ step2_payload = no_step2_payload
    /\ raw_text \in { PyStr(s) : s \in Texts } \cup { PyNone, PyNum }
    /\ normed = no_outcome
    /\ renormed = no_outcome
    /\ UrlIdle /\ AnswerIdle /\ CacheIdle

\* _norm(text)
Norm ==
    /\ pc = "norm"
    /\ normed' = _norm_call(raw_text)
    /\ pc' = "normed"
    /\ UNCHANGED << core_vars_but_pc, raw_text, renormed, url_vars, answer_vars, cache_vars >>

\* _norm(_norm(text)): the second call, on the result of a first call that
\* returned
NormAgain ==
    /\ pc = "normed"
    /\ normed.returned
    /\ renormed' = _norm_call(normed.result)
    /\ pc' = "renormed"
    /\ UNCHANGED << core_vars_but_pc, raw_text, normed, url_vars, answer_vars, cache_vars >>

NextNorm == Norm \/ NormAgain

SpecNorm == InitNorm /\ [][NextNorm]_vars

\* a str made only of a-z, 0-9, the hyphen and single spaces, with no space
\* at either end
NormalForm(s) ==
    /\ \A i \in DOMAIN s : s[i] \in LowerAlpha \cup Digits \cup {"-", " "}
    /\ \A i \in 1..(Len(s) - 1) : ~(s[i] = " " /\ s[i + 1] = " ")
    /\ s # <<>> => (s[1] # " " /\ s[Len(s)] # " ")

\* C11: _norm is total and idempotent: on every str, and on the empty and
\* the null input, it returns (it does not raise) a str made only of a-z,
\* 0-9, the hyphen and single spaces, with no leading or trailing space; the
\* empty and the null input give the empty string; and
\* _norm(_norm(s)) = _norm(s).
C11_NormTotalIdempotent ==
    (pc \in {"normed", "renormed"} /\ raw_text.kind \in {"str", "none"}) =>
        /\ normed.returned /\ ~normed.raised
        /\ normed.result.kind = "str"
        /\ NormalForm(normed.result.s)
        /\ Falsy(raw_text) => normed.result.s = <<>>
        /\ pc = "renormed" =>
              /\ renormed.returned /\ ~renormed.raised
              /\ renormed.result = normed.result

\* an upper-case letter, a tab and a lower-case letter: both calls made, the
\* first one changed the text
C11_Witness ==
    /\ pc = "renormed"
    /\ raw_text = PyStr(<<"Z", "\t", "a">>)
    /\ normed.result = PyStr(<<"z", " ", "a">>)
    /\ renormed.returned

(***************************************************************************)
(* _normalize_source_url (agent/agent.py)                                  *)
(***************************************************************************)
\* longest value (in fragments) handed to _normalize_source_url
MaxUrlFrags == 3

\* str.strip(chars): drop the leading and trailing characters that are in cs
RECURSIVE lstrip_chars(_, _)
lstrip_chars(s, cs) ==
    IF s # <<>> /\ Head(s) \in cs THEN lstrip_chars(Tail(s), cs) ELSE s

RECURSIVE rstrip_chars(_, _)
rstrip_chars(s, cs) ==
    IF s # <<>> /\ s[Len(s)] \in cs
    THEN rstrip_chars(SubSeq(s, 1, Len(s) - 1), cs)
    ELSE s

strip_chars(s, cs) == rstrip_chars(lstrip_chars(s, cs), cs)

\* the characters of the argument of url.strip(' "\'()[]{}<>')
UrlStripChars == { " ", "\"", "'", "(", ")", "[", "]", "{", "}", "<", ">" }

\* the characters of the test `any(ch in url for ch in (" ", "\n", "\t"))`
UrlRejectedChars == { " ", "\n", "\t" }

StartsWith(s, prefix) ==
    Len(s) >= Len(prefix) /\ SubSeq(s, 1, Len(prefix)) = prefix

https_colon == <<"h", "t", "t", "p", "s", ":">>
https_slashes == <<"h", "t", "t", "p", "s", ":", "/", "/">>
http_slashes == <<"h", "t", "t", "p", ":", "/", "/">>
www_dot == <<"w", "w", "w", ".">>

\* _URL_HTTP_RE.match(url): ^https?:// with re.I
_URL_HTTP_RE(u) ==
    StartsWith(lower(u), http_slashes) \/ StartsWith(lower(u), https_slashes)

\* _URL_PROTOLESS_RE.match(url): ^(www\.) with re.I
_URL_PROTOLESS_RE(u) == StartsWith(lower(u), www_dot)

\* _URL_SCHEMELESS_RE.match(url): ^//
_URL_SCHEMELESS_RE(u) == StartsWith(u, <<"/", "/">>)

\* the prefixing steps with "http://" put before a www. value
add_scheme_http(u) ==
    LET u1 == IF _URL_SCHEMELESS_RE(u) THEN https_colon \o u ELSE u
    IN  IF _URL_PROTOLESS_RE(u1) THEN http_slashes \o u1 ELSE u1

\* the two prefixing steps of _normalize_source_url, in the code's order
add_scheme(u) ==
    LET u1 == IF _URL_SCHEMELESS_RE(u) THEN https_colon \o u ELSE u
    IN  IF _URL_PROTOLESS_RE(u1) THEN https_slashes \o u1 ELSE u1

\* _normalize_source_url(value): the value returned (PyNone for None)
_normalize_source_url(v) ==
    IF v.kind # "str" THEN PyNone
    ELSE LET trimmed == strip(v.s)
             stripped == strip_chars(trimmed, UrlStripChars)
             final == add_scheme(stripped)
         IN  IF trimmed = <<>> THEN PyNone
             ELSE IF \E ch \in UrlRejectedChars : Contains(trimmed, <<ch>>) THEN PyNone
             ELSE IF stripped = <<>> THEN PyNone
             ELSE IF ~_URL_HTTP_RE(final) THEN PyNone
             ELSE IF Len(final) < 12 THEN PyNone
             ELSE PyStr(final)

(***************************************************************************)
(* SpecUrl: one call of _normalize_source_url                              *)
(***************************************************************************)
\* pieces that the values are concatenated from
UrlFragments ==
    { <<"h", "t", "t", "p", "s", ":", "/", "/">>,
      <<"H", "T", "T", "P", ":", "/", "/">>,
      <<"/", "/">>,
      <<"w", "w", "w", ".">>,
      <<"W", "W", "W", ".">>,
      <<"e", "x", "a", "m", "p", "l", "e", ".", "c", "o", "m">>,
      <<"x">>,
      <<" ">>,
      <<"\t">>,
      <<"\n">>,
      <<"\r">>,
      <<"(">>,
      <<">">>,
      <<"'">>,
      <<"f", "t", "p", ":", "/", "/">> }

LaRochePosay == <<"L", "a", " ", "R", "o", "c", "h", "e", "-", "P", "o", "s", "a", "y", " ", "E", "f", "f", "a", "c", "l", "a", "r">>
HttpsX == <<"h", "t", "t", "p", "s", ":", "/", "/", "x">>
WwwExampleProduct == <<"w", "w", "w", ".", "e", "x", "a", "m", "p", "l", "e", ".", "c", "o", "m", "/", "p", "r", "o", "d", "u", "c", "t">>
HttpsWwwExampleProduct == <<"h", "t", "t", "p", "s", ":", "/", "/", "w", "w", "w", ".", "e", "x", "a", "m", "p", "l", "e", ".", "c", "o", "m", "/", "p", "r", "o", "d", "u", "c", "t">>
SchemelessExample == <<"/", "/", "e", "x", "a", "m", "p", "l", "e", ".", "c", "o", "m", "/", "p">>
HttpsExampleP == <<"h", "t", "t", "p", "s", ":", "/", "/", "e", "x", "a", "m", "p", "l", "e", ".", "c", "o", "m", "/", "p">>

\* the values quoted by the documentation of the function
UrlExamples == { LaRochePosay, HttpsX, WwwExampleProduct, SchemelessExample }

UrlValues ==
    { PyStr(s) : s \in UrlExamples \cup
         UNION { { Concat(fs) : fs \in [1..k -> UrlFragments] } : k \in 0..MaxUrlFrags } }
    \cup { PyNone, PyNum }

InitUrl ==
    /\ hard_iter = hard_declared
    /\ pc = "url"
    /\ name = <<>>
    /\ position = 1
    /\ flags = no_flags
    /\ raw_ingredients = <<>>
    /\ ingredients = <<>>
    /\ risk_level = "unset"
    /\ composition = no_composition
    /\ step2_payload = no_step2_payload
    /\ value \in UrlValues
    /\ url = no_outcome
    /\ NormIdle /\ AnswerIdle /\ CacheIdle

\* obj["source_url"] = _normalize_source_url(obj.get("source_url"))
NormalizeUrl ==
    /\ pc = "url"
    /\ url' = [returned |-> TRUE, raised |-> FALSE,
               result |-> _normalize_source_url(value)]
    /\ pc' = "url_done"
    /\ UNCHANGED << core_vars_but_pc, value, norm_vars, answer_vars, cache_vars >>

NextUrl == NormalizeUrl

SpecUrl == InitUrl /\ [][NextUrl]_vars

\* a whitespace character with a character that is no whitespace somewhere
\* before it and somewhere after it
InteriorWhitespace(s) ==
    \E i, j, k \in DOMAIN s :
        /\ i < j /\ j < k
        /\ s[i] \notin Whitespace /\ s[j] \in Whitespace /\ s[k] \notin Whitespace

\* C12: for every input value _normalize_source_url does not raise and
\* returns either None or a str that starts with http:// or https:// in any
\* case, has at least 12 characters and contains no space, tab or newline;
\* a value that is no str, an empty value, a value with interior whitespace
\* ("La Roche-Posay Effaclar") and a too short value ("https://x") give None.
C12_UrlOrNull ==
    pc = "url_done" =>
        /\ url.returned /\ ~url.raised
        /\ \/ url.result = PyNone
           \/ /\ url.result.kind = "str"
              /\ _URL_HTTP_RE(url.result.s)
              /\ Len(url.result.s) >= 12
              /\ \A i \in DOMAIN url.result.s : url.result.s[i] \notin {" ", "\t", "\n"}
        /\ value.kind # "str" => url.result = PyNone
        /\ value.s = <<>> => url.result = PyNone
        /\ (value.kind = "str" /\ InteriorWhitespace(value.s)) => url.result = PyNone
        /\ value = PyStr(LaRochePosay) => url.result = PyNone
        /\ value = PyStr(HttpsX) => url.result = PyNone

\* C13: for an accepted value _normalize_source_url returns the trimmed,
\* punctuation-stripped value, with "https:" put before it when it starts
\* with "//", with "https://" put before it when it starts with "www." in
\* any case, and unchanged otherwise; "www.example.com/product" gives
\* "https://www.example.com/product" and "//example.com/p" gives
\* "https://example.com/p".
C13_AcceptedValue ==
    (pc = "url_done" /\ url.result # PyNone) =>
        LET core == strip_chars(strip(value.s), UrlStripChars)
            schemeless == StartsWith(core, <<"/", "/">>)
            protoless == StartsWith(lower(core), www_dot)
        IN  /\ schemeless => url.result = PyStr(https_colon \o core)
            /\ (~schemeless /\ protoless) => url.result = PyStr(https_slashes \o core)
            /\ (~schemeless /\ ~protoless) => url.result = PyStr(core)
            /\ value = PyStr(WwwExampleProduct) =>
                   url.result = PyStr(HttpsWwwExampleProduct)
            /\ value = PyStr(SchemelessExample) => url.result = PyStr(HttpsExampleP)

\* "www.example.com/product" was accepted and returned with its scheme
C13_Witness ==
    /\ pc = "url_done"
    /\ value = PyStr(WwwExampleProduct)
    /\ url.result = PyStr(HttpsWwwExampleProduct)

(***************************************************************************)
(* Order of the rules and of the tables (checked under SpecClassify)       *)
(***************************************************************************)
lanolin == <<"l", "a", "n", "o", "l", "i", "n">>
DimethiconeWax == <<"D", "i", "m", "e", "t", "h", "i", "c", "o", "n", "e", " ", "W", "a", "x">>
OliveOilSqualane == <<"O", "l", "i", "v", "e", " ", "O", "i", "l", ",", " ", "S", "q", "u", "a", "l", "a", "n", "e">>
StearicAcidGlycerylStearate == <<"S", "t", "e", "a", "r", "i", "c", " ", "A", "c", "i", "d", ",", " ", "G", "l", "y", "c", "e", "r", "y", "l", " ", "S", "t", "e", "a", "r", "a", "t", "e">>

\* the hard term t matches the normalized name n by the rule of its kind: a
\* phrase as a substring, a single word as a standalone word
HardTermMatches(t, n) ==
    IF Contains(t, <<" ">>) THEN Contains(n, t) ELSE StandaloneWord(n, t)

\* some hard rule matches n: the wax rule or a term of the set
HardRuleMatches(n) ==
    StandaloneWord(n, wax) \/ \E t \in hard_comedogens : HardTermMatches(t, n)

\* the entries of conditional_comedogens whose term matches n
ConditionalHits(n) ==
    { i \in DOMAIN conditional_comedogens :
          TermMatches(conditional_comedogens[i].term, n) }

\* C14: the classification is a function of the name, the position and the
\* contents of the two tables only: whatever the order in which the set
\* hard_comedogens and the map conditional_comedogens are iterated, the call
\* returns the same flags, and a repeated call returns them again.
C14_OrderIndependent ==
    pc = "classified" =>
        LET n == _norm(name)
            hits == ConditionalHits(n)
        IN  /\ \A o \in HardOrders, c \in CondOrders :
                   (o # hard_iter \/ c # conditional_comedogens) =>
                       classify_norm(o, c, n, position) = flags
            /\ flags.is_hard = HardRuleMatches(n)
            /\ ~flags.is_hard => flags.is_conditional = (hits # {})
            /\ \A i \in hits :
                   ~flags.is_hard =>
                       flags.early_conditional =
                           (position <= conditional_comedogens[i].cutoff)

\* a name that two hard terms and two conditional terms match, classified by
\* the process that iterates the hard set in reverse
C14_Witness ==
    /\ pc = "classified"
    /\ hard_iter = Reverse(hard_declared)
    /\ name = OliveOilSqualane
    /\ flags = hard_flags

\* C15: the first matching rule wins, in the order wax rule, hard terms,
\* conditional terms: a name that a hard rule and a conditional term both
\* match gets is_hard alone (is_conditional and early_conditional false); a
\* name with the whole word "lanolin", a term of both tables, is hard and
\* never conditional; a name with the whole word "wax" and a conditional term
\* is hard.
C15_FirstMatchWins ==
    pc = "classified" =>
        LET n == _norm(name)
            conditional == ConditionalHits(n) # {}
        IN  /\ (HardRuleMatches(n) /\ conditional) => flags = hard_flags
            /\ StandaloneWord(n, lanolin) => flags = hard_flags
            /\ (StandaloneWord(n, wax) /\ conditional) => flags = hard_flags

\* "Dimethicone Wax" at an early position: the wax rule and the conditional
\* term dimethicone both match
C15_Witness ==
    /\ pc = "classified"
    /\ name = DimethiconeWax
    /\ position = 1
    /\ flags = hard_flags

\* the normalized name n has one of the six derivative words as a whole word
HasDerivativeWord(n) == \E d \in derivative_words : StandaloneWord(n, d)

\* the name is classified hard and only an acid term can have done it:
\* neither the wax rule nor a hard term outside the six acids matches n
HardThroughAcidTerm(n) ==
    /\ flags.is_hard
    /\ ~StandaloneWord(n, wax)
    /\ \A t \in hard_comedogens \ acid_terms : ~HardTermMatches(t, n)

\* C16 as the specification states it: a name whose normalized form has a
\* derivative word as a whole word is never classified hard through an acid
\* term, also when it contains an exact "<x> acid" phrase as well.
C16_DerivativeSkipsAcidTerms ==
    pc = "classified" =>
        LET n == _norm(name)
        IN  HasDerivativeWord(n) => ~HardThroughAcidTerm(n)

\* C16 (amended): a derivative word never matches an acid term by itself; a
\* name whose normalized form has a derivative word is classified hard
\* through an acid term exactly when it also contains the exact "<x> acid"
\* phrase of one of the six acids, and such a name is hard ("Stearic Acid,
\* Glyceryl Stearate" is hard).
C16_DerivativeNeedsExactAcid ==
    pc = "classified" =>
        LET n == _norm(name)
            exactAcid == \E a \in acid_terms : Contains(n, a)
        IN  HasDerivativeWord(n) =>
                /\ exactAcid => flags = hard_flags
                /\ HardThroughAcidTerm(n) => exactAcid
                /\ name = StearicAcidGlycerylStearate => HardThroughAcidTerm(n)

C16_Witness ==
    /\ pc = "classified"
    /\ name = StearicAcidGlycerylStearate
    /\ position = 2
    /\ flags = hard_flags

(***************************************************************************)
(* SpecStep2: the step-2 cache, the in-flight marks, the callbacks and the  *)
(* background tasks (bot/bot.py)                                           *)
(*                                                                         *)
(* The handlers are coroutines of one event loop: the code between two     *)
(* awaits runs without interleaving, so each action is one such stretch.   *)
(***************************************************************************)
\* number of callbacks (button presses) delivered in a behaviour
MaxClicks == 4

\* _cache_del that forgets the cache entry: it clears only the in-flight mark
_cache_del_mark_only(token) ==
    [cache |-> STEP2_CACHE, inflight |-> STEP2_INFLIGHT \ {token}]

\* _cache_del(token): the two maps after the call
_cache_del(token) ==
    [cache |-> STEP2_CACHE \ {token}, inflight |-> STEP2_INFLIGHT \ {token}]

\* _cache_get(token): whether it returns the data (hit), and the two maps
\* after the call; an entry older than STEP2_CACHE_TTL_SEC is popped from
\* both maps
_cache_get(token) ==
    IF token \notin STEP2_CACHE
    THEN [hit |-> FALSE, cache |-> STEP2_CACHE, inflight |-> STEP2_INFLIGHT]
    ELSE IF token \in ttl_passed
         THEN [hit |-> FALSE, cache |-> STEP2_CACHE \ {token},
               inflight |-> STEP2_INFLIGHT \ {token}]
         ELSE [hit |-> TRUE, cache |-> STEP2_CACHE, inflight |-> STEP2_INFLIGHT]

\* the entry logged for a callback of the handler `kind` answered `answer`
Answered(token, kind, answer) ==
    [kind |-> kind, answer |-> answer,
     in_flight |-> tasks[token] > 0,
     finished |-> started[token] > 0 /\ tasks[token] = 0]

InitStep2 ==
    /\ hard_iter = hard_declared
    /\ pc = "serving"
    /\ name = <<>>
    /\ position = 1
    /\ flags = no_flags
    /\ raw_ingredients = <<>>
    /\ ingredients = <<>>
    /\ risk_level = "unset"
    /\ composition = no_composition
    /\ step2_payload = no_step2_payload
    /\ NormIdle /\ UrlIdle /\ AnswerIdle /\ CacheIdle

\* _run_step1_and_answer: token = _cache_put(...), a token never returned
\* before
CachePut(t) ==
    /\ t \notin issued
    /\ issued' = issued \cup {t}
    /\ STEP2_CACHE' = STEP2_CACHE \cup {t}
    /\ UNCHANGED << STEP2_INFLIGHT, ttl_passed, callbacks, tasks, started, answers, clicks >>
    /\ UNCHANGED << core_vars, norm_vars, url_vars, answer_vars >>

\* time passes: the entry of t is now older than STEP2_CACHE_TTL_SEC
TtlPasses(t) ==
    /\ t \in STEP2_CACHE
    /\ t \notin ttl_passed
    /\ ttl_passed' = ttl_passed \cup {t}
    /\ UNCHANGED << STEP2_CACHE, STEP2_INFLIGHT, issued, callbacks, tasks, started,
                    answers, clicks >>
    /\ UNCHANGED << core_vars, norm_vars, url_vars, answer_vars >>

\* handle_composition_callback for a button that carries the token t
CompositionClick(t) ==
    /\ t \in issued
    /\ clicks < MaxClicks
    /\ clicks' = clicks + 1
    /\ LET got == _cache_get(t)
       IN  /\ STEP2_CACHE' = got.cache
           /\ STEP2_INFLIGHT' = got.inflight
           /\ answers' = [answers EXCEPT ![t] =
                  Answered(t, "composition", IF got.hit THEN "composition" ELSE "stale")]
    /\ UNCHANGED << issued, ttl_passed, callbacks, tasks, started >>
    /\ UNCHANGED << core_vars, norm_vars, url_vars, answer_vars >>

\* handle_step2_callback for a button that carries the token t, up to its
\* first await: the stale answer, the "already working" answer, or the mark
\* in STEP2_INFLIGHT and the suspension at `await cb.answer()`
Step2Click(t) ==
    /\ t \in issued
    /\ clicks < MaxClicks
    /\ clicks' = clicks + 1
    /\ LET got == _cache_get(t)
       IN  IF ~got.hit
           THEN /\ STEP2_CACHE' = got.cache
                /\ STEP2_INFLIGHT' = got.inflight
                /\ answers' = [answers EXCEPT ![t] = Answered(t, "step2", "stale")]
                /\ UNCHANGED callbacks
           ELSE IF t \in got.inflight
           THEN /\ answers' = [answers EXCEPT ![t] = Answered(t, "step2", "busy")]
                /\ UNCHANGED << STEP2_CACHE, STEP2_INFLIGHT, callbacks >>
           ELSE /\ STEP2_INFLIGHT' = got.inflight \cup {t}
                /\ STEP2_CACHE' = got.cache
                /\ callbacks' = [callbacks EXCEPT ![t].awaiting_answer = @ + 1]
                /\ answers' = [answers EXCEPT ![t] = Answered(t, "step2", "accepted")]
    /\ UNCHANGED << issued, ttl_passed, tasks, started >>
    /\ UNCHANGED << core_vars, norm_vars, url_vars, answer_vars >>

\* handle_step2_callback: `await cb.answer()` returned; the run is now
\* suspended at `await cb.message.answer(PROCESSING_STEP2)`
Step2AnswerSent(t) ==
    /\ callbacks[t].awaiting_answer > 0
    /\ callbacks' = [callbacks EXCEPT ![t].awaiting_answer = @ - 1,
                                      ![t].awaiting_message = @ + 1]
    /\ UNCHANGED << STEP2_CACHE, STEP2_INFLIGHT, issued, ttl_passed, tasks, started,
                    answers, clicks >>
    /\ UNCHANGED << core_vars, norm_vars, url_vars, answer_vars >>

\* handle_step2_callback: the second await returned;
\* asyncio.create_task(_run_step2_background(...))
Step2CreateTask(t) ==
    /\ callbacks[t].awaiting_message > 0
    /\ callbacks' = [callbacks EXCEPT ![t].awaiting_message = @ - 1]
    /\ tasks' = [tasks EXCEPT ![t] = @ + 1]
    /\ started' = [started EXCEPT ![t] = @ + 1]
    /\ UNCHANGED << STEP2_CACHE, STEP2_INFLIGHT, issued, ttl_passed, answers, clicks >>
    /\ UNCHANGED << core_vars, norm_vars, url_vars, answer_vars >>

\* handle_step2_callback: one of the two Telegram sends raises; the
\* exception leaves the handler before create_task
Step2SendFails(t) ==
    /\ \/ /\ callbacks[t].awaiting_answer > 0
          /\ callbacks' = [callbacks EXCEPT ![t].awaiting_answer = @ - 1]
       \/ /\ callbacks[t].awaiting_message > 0
          /\ callbacks' = [callbacks EXCEPT ![t].awaiting_message = @ - 1]
    /\ UNCHANGED << STEP2_CACHE, STEP2_INFLIGHT, issued, ttl_passed, tasks, started,
                    answers, clicks >>
    /\ UNCHANGED << core_vars, norm_vars, url_vars, answer_vars >>

\* _run_step2_background runs to its end, with the explanation sent or with
\* an exception caught: `finally: _cache_del(token)`
TaskFinish(t) ==
    /\ tasks[t] > 0
    /\ tasks' = [tasks EXCEPT ![t] = @ - 1]
    /\ STEP2_CACHE' = _cache_del(t).cache
    /\ STEP2_INFLIGHT' = _cache_del(t).inflight
    /\ UNCHANGED << issued, ttl_passed, callbacks, started, answers, clicks >>
    /\ UNCHANGED << core_vars, norm_vars, url_vars, answer_vars >>

NextStep2 ==
    \E t \in Tokens :
        \/ CachePut(t)
        \/ TtlPasses(t)
        \/ CompositionClick(t)
        \/ Step2Click(t)
        \/ Step2AnswerSent(t)
        \/ Step2CreateTask(t)
        \/ Step2SendFails(t)
        \/ TaskFinish(t)

SpecStep2 == InitStep2 /\ [][NextStep2]_vars

\* C18: under any interleaving of step-2 and composition callbacks, cache
\* expiry and task completion, at most one step-2 background task is ever
\* started for a token; a step-2 callback that arrives while the task is
\* running is rejected; once the task has finished the token is in neither
\* STEP2_CACHE nor STEP2_INFLIGHT and every later callback with it is
\* answered as stale.
C18_AtMostOneTask ==
    \A t \in Tokens :
        /\ started[t] <= 1
        /\ (answers[t].kind = "step2" /\ answers[t].in_flight) =>
               answers[t].answer \in {"busy", "stale"}
        /\ answers[t].finished => answers[t].answer = "stale"
        /\ (started[t] >= 1 /\ tasks[t] = 0) =>
               (t \notin STEP2_CACHE /\ t \notin STEP2_INFLIGHT)

\* a task was started and has finished, and a step-2 callback that came
\* afterwards was answered as stale
C18_Witness ==
    \E t \in Tokens :
        /\ started[t] = 1
        /\ tasks[t] = 0
        /\ answers[t] = [kind |-> "step2", answer |-> "stale",
                         in_flight |-> FALSE, finished |-> TRUE]

\* C19: a token marked in STEP2_INFLIGHT by handle_step2_callback always has
\* a background task running for it, or the handler that marked it is still
\* on its way to create_task: the mark never stays with no task to clear it,
\* also when a Telegram send in the callback fails.
C19_MarkedHasTask ==
    \A t \in STEP2_INFLIGHT :
        \/ tasks[t] > 0
        \/ callbacks[t].awaiting_answer > 0
        \/ callbacks[t].awaiting_message > 0

(***************************************************************************)
(* SpecPresent: the product analysis on a lookup payload that also carries *)
(* a risk_level and an error of its own                                    *)
(***************************************************************************)
\* longest ingredient list of a payload that carries upstream fields
MaxUpstream == 2

\* data["risk_level"] as the lookup step may supply it ("unset": no such key)
UpstreamRisks == { "unset", "none", "low", "medium", "high" }

\* data["error"] as the lookup step may supply it
UpstreamErrors == { "unset", "no_inci" }

InitPresent ==
    /\ hard_iter \in HardOrders
    /\ pc = "lookup"
    /\ name = <<>>
    /\ position = 1
    /\ flags = no_flags
    /\ raw_ingredients \in SeqsOf(RawIngredients, 0, MaxUpstream)
    /\ ingredients = raw_ingredients
    /\ risk_level \in UpstreamRisks
    /\ composition = no_composition
    /\ step2_payload = no_step2_payload
    /\ error \in UpstreamErrors
    /\ presented = "unset"
    /\ step1_cache = no_step1_cache
    /\ NormIdle /\ UrlIdle /\ CacheIdle

SpecPresent == InitPresent /\ [][Next]_vars

\* the risk level of a payload by the strict rules alone: none without
\* ingredients, otherwise calc_risk_level_strict of the strictly flagged list
StrictRisk(raw) ==
    IF raw = <<>> THEN "none"
    ELSE calc_risk_level_strict(apply_comedogenic_flags_strict(raw).ingredients)

\* C20: the risk level that the step-1 answer presents, and the one cached
\* for step 2, is the value calc_risk_level_strict computes from the strictly
\* flagged ingredients, or none when the payload has no ingredients; a
\* risk_level or an is_hard/is_conditional value supplied by the lookup
\* payload never determines it.
C20_PresentedRiskIsStrict ==
    (pc = "answered" /\ error # "no_inci") =>
        /\ presented = StrictRisk(raw_ingredients)
        /\ step1_cache.put => step1_cache.risk_level = StrictRisk(raw_ingredients)

====
